---- MODULE Spec2Model ----
(***************************************************************************)
(* Process supervisor of src/src/hooks.ts: the riptide hooks               *)
(* installSecrets / start / health / stop, the exit observer and the       *)
(* restart timer it schedules, the log readers and the health evaluator.   *)
(*                                                                         *)
(* Node runs the hooks on one event loop: a step of the model is one run   *)
(* to the next await (or to the return) of a hook or callback.             *)
(* Time is counted in units of 100 ms (the poll interval of stop).  The     *)
(* code only ever uses Date.now() in differences, so the model keeps each  *)
(* stored instant as its distance to the current one: the time since       *)
(* processState.startTime, the age of the cached health entry, the time    *)
(* left on a timer.  Tick moves all of them by one unit; a distance stops  *)
(* growing once it is past every value the code compares it with.          *)
(***************************************************************************)
EXTENDS Integers, Sequences, FiniteSets, TLC

\* ---------------------------------------------------------------- bounds
MaxSpawns == 3          \* children spawned in one behaviour
MaxUptime == 1          \* largest uptime a log line reports
HealthSpawns == 2       \* children spawned in one behaviour of SpecHealth
MaxCap == 3             \* largest capacity of a CircularBuffer in SpecPure
MaxPushes == 4          \* lines pushed between two calls of clear in SpecPure
MaxAttempt == 9         \* largest attempt given to calculateBackoff in SpecPure

\* ------------------------------------------------- CONFIG (environment)
MAX_RESTART_ATTEMPTS == 2
RESTART_DELAY        == 1
STARTUP_GRACE_PERIOD == 1
HEALTH_CACHE_TTL     == 1
SHUTDOWN_TIMEOUT     == 2
MAX_LOG_LINES        == 2

\* ------------------------------------------------- literals of the code
PollInterval    == 1     \* delay(100) in stop
MaxBackoffDelay == 300   \* maxDelay = 30000 of calculateBackoff
\* getRecent(50) against MAX_LOG_LINES = 1000, kept below the largest
\* buffer so that buffered lines can lie outside the window
RecentWindow    == 2

NoChild == 0
NoCache == [none |-> TRUE]
NoTimer == [phase |-> "none"]

ChildIds == 1..MaxSpawns

\* ------------------------------------------------------------ log lines
\* A line is kept by what the patterns of the code see in it: the number an
\* UPTIME_PATTERNS match captures (NoMatch when no pattern matches) and
\* whether it contains one of ERROR_KEYWORDS.
NoMatch == -1

StdoutLines == { [up |-> u, err |-> FALSE] : u \in 1..MaxUptime }

\* a stderr line stored as it came, without a prefix
StderrStoredRaw == [up |-> NoMatch, err |-> FALSE]

\* stderrReader pushes `ERROR: ${line}`: the prefix holds the keyword 'error'
StderrStored == [up |-> NoMatch, err |-> TRUE]

\* ------------------------------------------------------- CircularBuffer
EmptySlot == [empty |-> TRUE]

BufNew(capacity) ==
    [buffer |-> [i \in 0..(capacity - 1) |-> EmptySlot], head |-> 0, size |-> 0,
     capacity |-> capacity]

Min(a, b) == IF a < b THEN a ELSE b

\* a push that advances head before it writes the slot
BufPushSizeFirst(b, item) ==
    [b EXCEPT !.buffer = [b.buffer EXCEPT ![(b.head + 1) % b.capacity] = item],
              !.head   = (b.head + 1) % b.capacity,
              !.size   = Min(b.size + 1, b.capacity)]

BufPush(b, item) ==
    [b EXCEPT !.buffer = [b.buffer EXCEPT ![b.head] = item],
              !.head   = (b.head + 1) % b.capacity,
              !.size   = Min(b.size + 1, b.capacity)]

RECURSIVE BufCollect(_, _, _, _)
BufCollect(b, start, i, acc) ==
    IF i >= b.size THEN acc
    ELSE LET idx == (start + i) % b.capacity
         IN  BufCollect(b, start, i + 1,
                        IF b.buffer[idx] # EmptySlot THEN Append(acc, b.buffer[idx]) ELSE acc)

BufGetAll(b) ==
    BufCollect(b, IF b.size = b.capacity THEN b.head ELSE 0, 0, << >>)

\* Array.prototype.slice(-n): the last n elements; slice(-0) is slice(0), all
Slice(all, n) ==
    IF n = 0 \/ n >= Len(all) THEN all
    ELSE SubSeq(all, Len(all) - n + 1, Len(all))

BufGetRecent(b, n) == Slice(BufGetAll(b), n)

\* getRecent of the variant of the class that indexes back from head
\* (src/unnamed/part_002); push and clear are the same in both variants
RECURSIVE BufCollectBack(_, _, _, _)
BufCollectBack(b, count, i, acc) ==
    IF i >= count THEN acc
    ELSE LET idx == (b.head - count + i + b.capacity) % b.capacity
         IN  BufCollectBack(b, count, i + 1,
                            IF b.buffer[idx] # EmptySlot
                            THEN Append(acc, b.buffer[idx]) ELSE acc)

BufGetRecentIndexed(b, n) == BufCollectBack(b, Min(n, b.size), 0, << >>)

\* a clear that leaves the lines in place
BufKeep(b) == b

BufClear(b) == BufNew(b.capacity)

\* ------------------------------------------------------ pure functions
RECURSIVE ScanUptime(_, _)
ScanUptime(recent, i) ==
    IF i < 1 THEN 0
    ELSE IF recent[i].up # NoMatch THEN recent[i].up
    ELSE ScanUptime(recent, i - 1)

\* an extractor that scans every buffered line
extractUptimeFromAllLogs(b) ==
    ScanUptime(BufGetAll(b), Len(BufGetAll(b)))

extractUptimeFromLogs(b) ==
    LET recentLogs == BufGetRecent(b, RecentWindow)
    IN  ScanUptime(recentLogs, Len(recentLogs))

RECURSIVE Pow2(_)
Pow2(k) == IF k = 0 THEN 1 ELSE 2 * Pow2(k - 1)

\* Math.floor(delay + Math.random() * 0.3 * delay): every value the draw
\* in [0, 1) can give
\* a delay that is not capped at maxDelay
BackoffDelayUncapped(attempt, baseDelay) == baseDelay * Pow2(attempt)

\* Math.min(baseDelay * Math.pow(2, attempt), maxDelay), the part of the
\* delay without jitter
BackoffDelay(attempt, baseDelay) ==
    Min(baseDelay * Pow2(attempt), MaxBackoffDelay)

calculateBackoff(attempt, baseDelay) ==
    LET delay == BackoffDelay(attempt, baseDelay)
    IN  { delay + j : j \in 0..((3 * delay - 1) \div 10) }

\* ---------------------------------------------------------------- state
VARIABLES
    autoKeyInjection, \* AUTO_KEY_INJECTION of the environment (useWrapper)
    process,      \* processState.process: NoChild (null) or a child id
    children,     \* the ChildProcess objects spawned so far
    nspawned,     \* how many of them
    sinceStart,   \* Date.now() - processState.startTime
    lastUptime,   \* processState.lastUptime
    isHealthy,    \* processState.isHealthy
    restartCount, \* processState.restartCount
    logs,         \* processState.logs
    healthCache,  \* processState.healthCache
    timers,       \* restart timers, by the child whose exit scheduled them
    startCall,    \* where the running call of start stands
    stopCall,     \* where the running call of stop stands
    totalHealthChecks, \* processState.metrics.totalHealthChecks
    wrapperPath,  \* global.binaryWrapperPath: "unset", "wrapper" or "binary"
    wrapperFile,  \* whether /app/binary-wrapper.sh exists
    ev            \* the step just taken: what ran, what it sent and returned

vars == << autoKeyInjection, process, children, nspawned, sinceStart, lastUptime,
           isHealthy, restartCount, logs, healthCache, timers, startCall,
           stopCall, totalHealthChecks, wrapperPath, wrapperFile, ev >>

supervisor == << sinceStart, lastUptime, isHealthy, restartCount, logs, healthCache >>

wrapper == << autoKeyInjection, wrapperPath, wrapperFile >>

Unborn == [st |-> "unborn", obs |-> "none", by |-> "none"]

IdleCall == [pc |-> "idle"]

\* distances stop growing here
SinceStartCap == STARTUP_GRACE_PERIOD + 1
CacheAgeCap   == HEALTH_CACHE_TTL

\* the time since the start of a call of stop is told apart up to one unit
\* past the shutdown timeout and one poll interval
StopElapsedCap == SHUTDOWN_TIMEOUT + PollInterval + 1

\* totalHealthChecks is only ever reported: the model counts the full
\* evaluations since the last start up to here, which tells a counter at its
\* initial value from one that has been written (the durations and the
\* memory usage of processState.metrics are written in the same lines)
ChecksCap == 1

ZeroMetrics ==
    [uptime |-> 0, isRunning |-> FALSE, hasErrors |-> FALSE, uptimeIncreasing |-> FALSE]

processState ==
    /\ process = NoChild
    /\ sinceStart = SinceStartCap
    /\ lastUptime = 0
    /\ isHealthy = FALSE
    /\ restartCount = 0
    /\ logs = BufNew(MAX_LOG_LINES)
    /\ healthCache = NoCache
    /\ totalHealthChecks = 0

Init ==
    /\ autoKeyInjection \in BOOLEAN
    /\ processState
    /\ children = [c \in ChildIds |-> Unborn]
    /\ nspawned = 0
    /\ timers = [c \in ChildIds |-> NoTimer]
    /\ startCall = IdleCall
    /\ stopCall = IdleCall
    /\ wrapperPath = "unset"
    /\ wrapperFile = FALSE
    /\ ev = [op |-> "init"]

\* ------------------------------------------------------------- children
HasPid(c) == children[c].st \in {"alive", "exited"}

\* process.kill(pid, 0) succeeds while the process exists
isProcessRunning(c) == children[c].st = "alive"

Alive == { c \in ChildIds : children[c].st = "alive" }

\* ChildProcess.kill(signal): the child the signal reaches, NoChild when the
\* child has exited already
Kill(c) == IF children[c].st = "alive" THEN c ELSE NoChild

\* ---------------------------------------------------- checkBinaryHealth
\* a cache that still serves an entry whose age has reached the TTL
CacheHitStale ==
    /\ healthCache # NoCache
    /\ healthCache.age <= HEALTH_CACHE_TTL

CacheHit ==
    /\ healthCache # NoCache
    /\ healthCache.age < HEALTH_CACHE_TTL

\* the age of the cached entry a call finds, NoMatch when there is none
CacheAge == IF healthCache = NoCache THEN NoMatch ELSE healthCache.age

HasErrorKeyword(recent) == \E i \in 1..Len(recent) : recent[i].err

\* metrics whose uptimeIncreasing accepts an uptime that has not moved
FullMetricsNotDecreasing ==
    LET uptime == extractUptimeFromLogs(logs)
    IN  [uptime |-> uptime, isRunning |-> TRUE,
         hasErrors |-> HasErrorKeyword(BufGetRecent(logs, RecentWindow)),
         uptimeIncreasing |-> uptime >= lastUptime]

FullMetrics ==
    LET uptime == extractUptimeFromLogs(logs)
        increasing ==
            IF uptime > lastUptime THEN TRUE
            ELSE IF sinceStart > STARTUP_GRACE_PERIOD THEN FALSE
            ELSE FALSE
    IN  [uptime |-> uptime, isRunning |-> TRUE,
         hasErrors |-> HasErrorKeyword(BufGetRecent(logs, RecentWindow)),
         uptimeIncreasing |-> increasing]

\* an evaluator that also caches the metrics of its early returns
EarlyReturnCacheStored(m) == [metrics |-> m, age |-> 0]

\* processState.healthCache after an early return (lines 387-397): the
\* metrics are returned and the cache is left as it was
EarlyReturnCache(m) == healthCache

\* what one call returns and what it leaves in processState
\* an evaluator that scans the lines for the uptime before it looks at the
\* cache
LastUptimeAfterHitScanned ==
    IF extractUptimeFromLogs(logs) > lastUptime
    THEN extractUptimeFromLogs(logs) ELSE lastUptime

\* the return of the cache check (line 377) comes before any write
LastUptimeAfterHit == lastUptime

checkBinaryHealth ==
    IF CacheHit THEN
        [metrics |-> healthCache.metrics, lastUptime |-> LastUptimeAfterHit,
         healthCache |-> healthCache, totalHealthChecks |-> totalHealthChecks,
         path |-> "cache"]
    ELSE IF process = NoChild \/ ~HasPid(process) THEN
        [metrics |-> ZeroMetrics, lastUptime |-> lastUptime,
         healthCache |-> EarlyReturnCache(ZeroMetrics),
         totalHealthChecks |-> totalHealthChecks, path |-> "nochild"]
    ELSE IF ~isProcessRunning(process) THEN
        [metrics |-> ZeroMetrics, lastUptime |-> lastUptime,
         healthCache |-> EarlyReturnCache(ZeroMetrics),
         totalHealthChecks |-> totalHealthChecks, path |-> "notrunning"]
    ELSE
        [metrics |-> FullMetrics,
         lastUptime |-> IF FullMetrics.uptime > lastUptime
                        THEN FullMetrics.uptime ELSE lastUptime,
         healthCache |-> [metrics |-> FullMetrics, age |-> 0],
         totalHealthChecks |-> Min(totalHealthChecks + 1, ChecksCap),
         path |-> "full"]

\* ------------------------------------------------------------- spawning
\* spawn(...): the new ChildProcess has a pid unless the command is the
\* wrapper script and the script is not there
SpawnHasPid(mode) == mode # "wrapper" \/ wrapperFile

NewChild == nspawned + 1

\* what the exit handler and its timer keep of useWrapper and binaryPath:
\* "inject" runs the key process and then the binary, "wrapper" runs the
\* wrapper script, "direct" runs the binary alone (useWrapper without a
\* wrapper script)
ModeOf(useWrapper) ==
    IF ~useWrapper THEN "inject"
    ELSE IF wrapperPath = "wrapper" THEN "wrapper"
    ELSE "direct"

\* ------------------------------------------------------- installSecrets
\* the host installs the secrets before it starts the service
\* the path createBinaryWrapper returns: the wrapper script's, or the
\* binary's own when the script could not be written (lines 258-265)
createBinaryWrapper(writeOk) == IF writeOk THEN "wrapper" ELSE "binary"

\* an installSecrets that also raises when the wrapper cannot be written
InstallOutcomeStrict(accessOk, writeOk) ==
    IF accessOk /\ writeOk THEN "success" ELSE "raised"

\* installSecrets raises when fs.access rejects (lines 455-460) and returns
\* { success: true } otherwise
InstallOutcome(accessOk, writeOk) ==
    IF accessOk THEN "success" ELSE "raised"

installSecrets(accessOk, writeOk) ==
    /\ nspawned = 0 /\ startCall.pc = "idle" /\ stopCall.pc = "idle"
    /\ IF ~accessOk
       THEN /\ UNCHANGED << wrapperPath, wrapperFile >>
       ELSE /\ wrapperPath' = createBinaryWrapper(writeOk)
            /\ wrapperFile' = (writeOk \/ wrapperFile)
    /\ ev' = [op |-> "installSecrets", val |-> InstallOutcome(accessOk, writeOk),
              access |-> accessOk, write |-> writeOk]
    /\ UNCHANGED << totalHealthChecks, autoKeyInjection, process, children, nspawned, supervisor,
                    timers, startCall, stopCall >>

\* ---------------------------------------------------------------- start
\* lines 511-549 of start once startBinaryProcess has resolved: the handle,
\* the pid check, monitorProcessLogs and the registration of the exit handler;
\* key is the exit code of the key process the call waited for ("none" when
\* it ran none)
StartSpawned(mode, key) ==
    /\ process' = NewChild
    /\ nspawned' = NewChild
    /\ IF SpawnHasPid(mode)
       THEN /\ children' = [children EXCEPT ![NewChild] =
                   [st |-> "alive", obs |-> mode, by |-> "start"]]
            /\ startCall' = [pc |-> "grace", left |-> STARTUP_GRACE_PERIOD]
            /\ ev' = [op |-> "start.spawn", val |-> NewChild, key |-> key]
       ELSE /\ children' = [children EXCEPT ![NewChild] =
                   [st |-> "nopid", obs |-> "none", by |-> "start"]]
            /\ startCall' = IdleCall
            /\ ev' = [op |-> "start", val |-> "raised", key |-> key,
                      error |-> "BinaryStartError"]

\* a reset that keeps the attempts counted for the earlier child
RestartCountKept == restartCount

\* processState.restartCount = 0 of the reset in start (line 492)
RestartCountAtStart == 0

\* start up to its first await: the reset of processState, then the spawn of
\* the key process (no wrapper) or of the child itself (wrapper)
StartBegin ==
    /\ startCall.pc = "idle" /\ stopCall.pc = "idle"
    /\ nspawned < MaxSpawns
    /\ sinceStart' = 0
    /\ lastUptime' = 0
    /\ isHealthy' = FALSE
    /\ restartCount' = RestartCountAtStart
    /\ logs' = BufClear(logs)
    /\ healthCache' = NoCache
    /\ totalHealthChecks' = 0
    /\ IF ~autoKeyInjection
       THEN /\ startCall' = [pc |-> "key", mode |-> ModeOf(autoKeyInjection)]
            /\ ev' = [op |-> "start.begin"]
            /\ UNCHANGED << process, children, nspawned >>
       ELSE StartSpawned(ModeOf(autoKeyInjection), "none")
    /\ UNCHANGED << timers, stopCall, wrapper >>

\* keyProcess.on('exit') of the call of start
KeyRejectedNever(code) == FALSE

\* keyProcess.on('exit'): any exit code but 0 rejects the promise and
\* returns before the binary is spawned (lines 301-305)
KeyRejected(code) == code # 0

StartKeyExit(code) ==
    /\ startCall.pc = "key"
    /\ IF KeyRejected(code)
       THEN /\ startCall' = IdleCall
            /\ ev' = [op |-> "start", val |-> "raised", key |-> code,
                      error |-> "InvalidSecretError"]
            /\ UNCHANGED << process, children, nspawned, logs >>
       ELSE /\ nspawned < MaxSpawns
            /\ StartSpawned(startCall.mode, code)
            /\ logs' = BufClear(logs)
    /\ UNCHANGED << totalHealthChecks, sinceStart, lastUptime, isHealthy, restartCount,
                    healthCache, timers, stopCall, wrapper >>

\* the verdict start stores after the grace period (line 556)
InitialVerdict(m) == m.isRunning /\ (m.uptimeIncreasing \/ m.uptime > 0)

\* a start that raises when the initial reading is unhealthy
StartOutcomeStrict(verdict) == IF verdict THEN "ok" ELSE "raised"

\* what start does with the initial reading: it stores and logs it and
\* returns (lines 555-558)
StartOutcome(verdict) == "ok"

StartInitialHealth ==
    /\ startCall.pc = "grace"
    /\ startCall.left = 0
    /\ LET r == checkBinaryHealth
       IN  /\ lastUptime' = r.lastUptime
           /\ healthCache' = r.healthCache
           /\ totalHealthChecks' = r.totalHealthChecks
           /\ isHealthy' = InitialVerdict(r.metrics)
           /\ ev' = [op |-> "start",
                     val |-> StartOutcome(InitialVerdict(r.metrics))]
    /\ startCall' = IdleCall
    /\ UNCHANGED << process, children, nspawned, sinceStart, restartCount,
                    logs, timers, stopCall, wrapper >>

\* -------------------------------------------------- exit of a child
\* a handler that restarts without looking at the counter
RestartAllowedAlways == TRUE

\* the guard of the exit handler (line 528)
RestartAllowed == restartCount < MAX_RESTART_ATTEMPTS

\* the counter after processState.restartCount++ (line 529)
Incremented(count) == count + 1

\* a handler that drops the handle of the child that exited
HandleAfterExitCleared(c) == IF process = c THEN NoChild ELSE process

\* processState.process once child c has exited: the handler leaves it alone
HandleAfterExit(c) == process

\* who sent SIGTERM to child c in the step before this one: its stderr
\* reader, stop, or nobody
Signalled(c) ==
    IF ev.op = "stderr" /\ ev.term = c THEN "stderr"
    ELSE IF ev.op = "stop.wait" /\ ev.term = c THEN "stop"
    ELSE "none"

\* a handler that gives the counter itself as the attempt
AttemptIndexOfCount(count) == count

\* the attempt given to calculateBackoff (line 533): restartCount - 1
AttemptIndex(count) == count - 1

\* A child ends, by itself or on a signal.  If start registered its exit
\* handler on this child (lines 523-549) the handler runs in the same step.
ChildExit(c) ==
    /\ children[c].st = "alive"
    /\ children' = [children EXCEPT ![c].st = "exited"]
    /\ process' = HandleAfterExit(c)
    /\ IF children[c].obs = "none"
       THEN /\ ev' = [op |-> "exit", val |-> c, handler |-> "none",
                      signalled |-> Signalled(c)]
            /\ UNCHANGED << isHealthy, restartCount, timers >>
       ELSE /\ isHealthy' = FALSE
            /\ IF RestartAllowed
               THEN /\ restartCount' = Incremented(restartCount)
                    /\ \E backoffDelay \in calculateBackoff(AttemptIndex(restartCount'), RESTART_DELAY) :
                         timers' = [timers EXCEPT ![c] =
                            [phase |-> "wait", left |-> backoffDelay,
                             mode |-> children[c].obs]]
                    /\ ev' = [op |-> "exit", val |-> c, handler |-> "restart",
                              signalled |-> Signalled(c)]
               ELSE /\ ev' = [op |-> "exit", val |-> c, handler |-> "giveup",
                              signalled |-> Signalled(c)]
                    /\ UNCHANGED << restartCount, timers >>
    /\ UNCHANGED << totalHealthChecks, nspawned, sinceStart, lastUptime, logs,
                    healthCache, startCall, stopCall, wrapper >>

\* ------------------------------------------------------- restart timer
\* the exit handler, if any, that the timer callback registers on the child
\* it has spawned (lines 538-541 register none)
RespawnObserver(mode) == "none"

\* a restart that forgets the uptime seen of the earlier children: the
\* respawned child starts from the uptime of empty metrics
LastUptimeAfterRespawnReset == ZeroMetrics.uptime

\* the timer callback writes the handle, startTime and healthCache (lines
\* 538-541), and the buffer through monitorProcessLogs; lastUptime is as it was
LastUptimeAfterRespawn == lastUptime

\* lines 538-541 once startBinaryProcess has resolved
Respawned(t, mode) ==
    /\ lastUptime' = LastUptimeAfterRespawn
    /\ process' = NewChild
    /\ nspawned' = NewChild
    /\ children' = [children EXCEPT ![NewChild] =
           [st |-> IF SpawnHasPid(mode) THEN "alive" ELSE "nopid",
            obs |-> RespawnObserver(mode), by |-> "restart"]]
    /\ logs' = BufClear(logs)
    /\ sinceStart' = 0
    /\ healthCache' = NoCache
    /\ timers' = [timers EXCEPT ![t] = NoTimer]
    /\ ev' = [op |-> "restart.spawn", val |-> NewChild]

\* the setTimeout callback up to its await
TimerFire(t) ==
    /\ timers[t].phase = "wait"
    /\ timers[t].left = 0
    /\ nspawned < MaxSpawns
    /\ IF timers[t].mode = "inject"
       THEN /\ timers' = [timers EXCEPT ![t] = [phase |-> "key", mode |-> "inject"]]
            /\ ev' = [op |-> "restart.begin", val |-> t]
            /\ UNCHANGED << process, children, nspawned, logs, sinceStart,
                            healthCache, lastUptime >>
       ELSE Respawned(t, timers[t].mode)
    /\ UNCHANGED << totalHealthChecks, isHealthy, restartCount, startCall,
                    stopCall, wrapper >>

\* a callback that schedules itself again when its respawn has failed
TimerAfterFailureRetry(t) ==
    [phase |-> "wait", left |-> RESTART_DELAY, mode |-> timers[t].mode]

\* the catch of the timer callback only logs (lines 542-544): the timer is
\* spent
TimerAfterFailure(t) == NoTimer

\* keyProcess.on('exit') of a restart; a rejection is caught and logged
TimerKeyExit(t, code) ==
    /\ timers[t].phase = "key"
    /\ IF KeyRejected(code)
       THEN /\ timers' = [timers EXCEPT ![t] = TimerAfterFailure(t)]
            /\ ev' = [op |-> "restart.failed", val |-> t]
            /\ UNCHANGED << process, children, nspawned, logs, sinceStart,
                            healthCache, lastUptime >>
       ELSE /\ nspawned < MaxSpawns
            /\ Respawned(t, timers[t].mode)
    /\ UNCHANGED << totalHealthChecks, isHealthy, restartCount, startCall,
                    stopCall, wrapper >>

\* --------------------------------------------------- monitorProcessLogs
StdoutLine(c, line) ==
    /\ children[c].st = "alive"
    /\ logs' = BufPush(logs, line)
    /\ ev' = [op |-> "stdout", val |-> c, term |-> NoChild]
    /\ UNCHANGED << totalHealthChecks, process, children, nspawned, sinceStart, lastUptime,
                    isHealthy, restartCount, healthCache, timers, startCall,
                    stopCall, wrapper >>

\* a reader that signals the child the handle refers to
SignalTargetCurrent(c) == IF process # NoChild THEN process ELSE c

\* childProcess.kill('SIGTERM') (line 366): childProcess is the child whose
\* stderr this reader was created for
SignalTarget(c) == c

\* invalidSecret: the line contains both 'invalid' and 'secret'; term is the
\* child that is sent SIGTERM
StderrLine(c, invalidSecret) ==
    /\ children[c].st = "alive"
    /\ logs' = BufPush(logs, StderrStored)
    /\ ev' = [op |-> "stderr", val |-> c, secret |-> invalidSecret,
              term |-> IF invalidSecret THEN Kill(SignalTarget(c)) ELSE NoChild]
    /\ UNCHANGED << totalHealthChecks, process, children, nspawned, sinceStart, lastUptime,
                    isHealthy, restartCount, healthCache, timers, startCall,
                    stopCall, wrapper >>

\* --------------------------------------------------------------- health
\* a verdict that asks for an uptime larger than at the call before
HealthVerdictStrict(m) ==
    m.isRunning /\ ~m.hasErrors /\ m.uptimeIncreasing

\* the verdict without the error scan, as start computes it
HealthVerdictIgnoringErrors(m) ==
    m.isRunning /\ (m.uptimeIncreasing \/ m.uptime > 0)

HealthVerdict(m) ==
    m.isRunning /\ ~m.hasErrors /\ (m.uptimeIncreasing \/ m.uptime > 0)

\* a health hook without its catch block
HealthReturnRethrow(threw, verdict) ==
    [raised |-> threw, val |-> verdict]

\* the try/catch of health: threw stands for an exception raised inside the
\* try block after the state update (a logger call that throws); the catch
\* block returns false
HealthReturn(threw, verdict) ==
    [raised |-> FALSE, val |-> IF threw THEN FALSE ELSE verdict]

health(threw) ==
    /\ LET r == checkBinaryHealth
           isHealthyNow == HealthVerdict(r.metrics)
       IN  /\ lastUptime' = r.lastUptime
           /\ healthCache' = r.healthCache
           /\ totalHealthChecks' = r.totalHealthChecks
           /\ isHealthy' = isHealthyNow
           /\ ev' = [op |-> "health", ret |-> HealthReturn(threw, isHealthyNow),
                     metrics |-> r.metrics, path |-> r.path, threw |-> threw,
                     age |-> CacheAge]
    /\ UNCHANGED << process, children, nspawned, sinceStart, restartCount,
                    logs, timers, startCall, stopCall, wrapper >>

\* ----------------------------------------------------------------- stop
\* the reset at the end of stop (lines 633-636).  The label tells what the
\* call did: the child it sent SIGTERM to (target), how its loop ended
\* (loop), the child it sent SIGKILL to (kill) and the time since its start
StopReset(done) ==
    /\ process' = NoChild
    /\ isHealthy' = FALSE
    /\ logs' = BufClear(logs)
    /\ healthCache' = NoCache
    /\ stopCall' = IdleCall
    /\ ev' = [op |-> "stop", val |-> "ok", kill |-> done.kill,
              target |-> done.target, loop |-> done.loop,
              elapsed |-> done.elapsed]

\* the child the forced kill goes to (lines 617-620): the handle as it is
\* after the loop, when the loop did not see it gone and it has a pid
ForcedKillAlways(shutdownComplete) ==
    IF HasPid(process) THEN Kill(process) ELSE NoChild

ForcedKill(shutdownComplete) ==
    IF ~shutdownComplete /\ HasPid(process) THEN Kill(process) ELSE NoChild

\* after the polling loop: the forced kill, then the cleanup of the wrapper
\* (an await) or directly the reset
StopAfterLoop(shutdownComplete, elapsed, target) ==
    LET done == [kill |-> ForcedKill(shutdownComplete), target |-> target,
                 loop |-> IF shutdownComplete THEN "gone" ELSE "timeout",
                 elapsed |-> elapsed]
    IN  IF wrapperPath = "wrapper"
        THEN /\ stopCall' = [pc |-> "unlink"] @@ done
             /\ ev' = [op |-> "stop.cleanup"] @@ done
             /\ UNCHANGED << process, isHealthy, logs, healthCache >>
        ELSE StopReset(done)

\* the condition of the while loop of stop on the time since its start
LoopContinuesWhileRunning(elapsed) == TRUE

LoopContinues(elapsed) == elapsed < SHUTDOWN_TIMEOUT

\* one turn of the while loop of stop (lines 608-614)
StopLoop(elapsed, term, target) ==
    IF LoopContinues(elapsed)
    THEN IF ~HasPid(process) \/ ~isProcessRunning(process)
         THEN StopAfterLoop(TRUE, elapsed, target)
         ELSE /\ stopCall' = [pc |-> "poll", elapsed |-> elapsed,
                              left |-> PollInterval, target |-> target]
              /\ ev' = [op |-> "stop.wait", term |-> term]
              /\ UNCHANGED << process, isHealthy, logs, healthCache >>
    ELSE StopAfterLoop(FALSE, elapsed, target)

StopBegin ==
    /\ stopCall.pc = "idle" /\ startCall.pc = "idle"
    /\ IF process = NoChild
       THEN /\ ev' = [op |-> "stop", val |-> "noprocess"]
            /\ UNCHANGED << process, isHealthy, logs, healthCache, stopCall >>
       ELSE StopLoop(0, Kill(process), process)
    /\ UNCHANGED << totalHealthChecks, children, nspawned, sinceStart,
                    lastUptime, restartCount, timers, startCall, wrapper >>

\* the loop resumes after delay(100)
StopPoll ==
    /\ stopCall.pc = "poll"
    /\ stopCall.left = 0
    /\ StopLoop(stopCall.elapsed, NoChild, stopCall.target)
    /\ UNCHANGED << totalHealthChecks, children, nspawned, sinceStart,
                    lastUptime, restartCount, timers, startCall, wrapper >>

\* fs.unlink has settled (a failure is only logged), stop resets the state
StopUnlink ==
    /\ stopCall.pc = "unlink"
    /\ wrapperFile' = FALSE
    /\ StopReset(stopCall)
    /\ UNCHANGED << totalHealthChecks, autoKeyInjection, children, nspawned,
                    sinceStart, lastUptime, restartCount, timers, startCall,
                    wrapperPath >>

\* ------------------------------------------------------------ heartbeat
\* processState.process?.pid || null
HeartbeatPid ==
    IF process # NoChild /\ HasPid(process) THEN process ELSE NoChild

\* a snapshot whose alive is the probe of the child
HeartbeatAliveProbed == process # NoChild /\ isProcessRunning(process)

\* alive: processState.isHealthy
HeartbeatAlive == isHealthy

\* the snapshot heartbeat returns.  Its uptime (whole seconds since
\* startTime) is left out: the model keeps the time since start only up to
\* SinceStartCap, well below one second; the two durations of the metrics
\* are written and reset together with totalHealthChecks
HeartbeatSnapshot ==
    [alive |-> HeartbeatAlive,
     pid |-> HeartbeatPid,
     restartCount |-> restartCount,
     totalHealthChecks |-> totalHealthChecks,
     isRunning |-> IF HeartbeatPid # NoChild THEN isProcessRunning(process)
                   ELSE FALSE,
     lastUptime |-> lastUptime]

heartbeat ==
    /\ ev' = [op |-> "heartbeat", ret |-> HeartbeatSnapshot]
    /\ UNCHANGED << totalHealthChecks, autoKeyInjection, process, children,
                    nspawned, sinceStart, lastUptime, isHealthy, restartCount,
                    logs, healthCache, timers, startCall, stopCall,
                    wrapperPath, wrapperFile >>

\* ----------------------------------------------------------------- time
\* a timer that is due runs before time moves on
Overdue ==
    \/ \E t \in ChildIds : timers[t].phase = "wait" /\ timers[t].left = 0
    \/ startCall.pc = "grace" /\ startCall.left = 0
    \/ stopCall.pc = "poll" /\ stopCall.left = 0

\* 100 ms pass
Tick ==
    /\ ~Overdue
    /\ sinceStart' = Min(sinceStart + 1, SinceStartCap)
    /\ healthCache' = IF healthCache = NoCache THEN NoCache
                      ELSE [healthCache EXCEPT !.age = Min(@ + 1, CacheAgeCap)]
    /\ timers' = [t \in ChildIds |->
                    IF timers[t].phase = "wait"
                    THEN [timers[t] EXCEPT !.left = @ - 1] ELSE timers[t]]
    /\ startCall' = IF startCall.pc = "grace"
                    THEN [startCall EXCEPT !.left = @ - 1] ELSE startCall
    /\ stopCall' = IF stopCall.pc = "poll"
                   THEN [stopCall EXCEPT !.left = @ - 1,
                                        !.elapsed = Min(@ + 1, StopElapsedCap)]
                   ELSE IF stopCall.pc = "unlink"
                   THEN [stopCall EXCEPT !.elapsed = Min(@ + 1, StopElapsedCap)]
                   ELSE stopCall
    /\ ev' = [op |-> "tick"]
    /\ UNCHANGED << totalHealthChecks, process, children, nspawned, lastUptime, isHealthy,
                    restartCount, logs, wrapper >>

\* ------------------------------------------------------- specifications
\* The life cycle of the children: every hook and callback that spawns,
\* ends or replaces a child, in both modes of key injection.  The children
\* write nothing and the host does not poll health: neither reads nor
\* writes the handle, the children, the counter, the timers or the calls.
Next ==
    \/ \E accessOk, writeOk \in BOOLEAN : installSecrets(accessOk, writeOk)
    \/ StartBegin
    \/ \E code \in {0, 1} : StartKeyExit(code)
    \/ StartInitialHealth
    \/ \E c \in ChildIds : ChildExit(c)
    \/ \E t \in ChildIds : TimerFire(t)
    \/ \E t \in ChildIds, code \in {0, 1} : TimerKeyExit(t, code)
    \/ StopBegin
    \/ StopPoll
    \/ StopUnlink
    \/ heartbeat
    \/ Tick

Spec == Init /\ [][Next]_vars

\* The health evaluator: children that write on stdout and stderr, a host
\* that polls health, and the starts, exits, restarts and stops around them.
\* The child is spawned directly (AUTO_KEY_INJECTION without a wrapper
\* script), HealthSpawns children at most.
InitHealth ==
    /\ Init
    /\ autoKeyInjection

StartBeginHealth == nspawned < HealthSpawns /\ StartBegin

TimerFireHealth(t) == nspawned < HealthSpawns /\ TimerFire(t)

NextHealth ==
    \/ StartBeginHealth
    \/ StartInitialHealth
    \/ \E c \in ChildIds : ChildExit(c)
    \/ \E t \in ChildIds : TimerFireHealth(t)
    \/ \E c \in ChildIds, line \in StdoutLines : StdoutLine(c, line)
    \/ \E c \in ChildIds, invalidSecret \in BOOLEAN : StderrLine(c, invalidSecret)
    \/ \E threw \in BOOLEAN : health(threw)
    \/ StopBegin
    \/ StopPoll
    \/ Tick

SpecHealth == InitHealth /\ [][NextHealth]_vars

\* The health evaluator when the key is set by a separate key process
\* (no AUTO_KEY_INJECTION): start and the restart timer wait for the key
\* process to exit before they spawn the child, and the children write on
\* stdout and the host polls health meanwhile.  The host does not call stop.
InitInject ==
    /\ Init
    /\ ~autoKeyInjection

NextInject ==
    \/ StartBeginHealth
    \/ \E code \in {0, 1} : StartKeyExit(code)
    \/ StartInitialHealth
    \/ \E c \in ChildIds : ChildExit(c)
    \/ \E t \in ChildIds : TimerFireHealth(t)
    \/ \E t \in ChildIds, code \in {0, 1} : TimerKeyExit(t, code)
    \/ \E c \in ChildIds, line \in StdoutLines : StdoutLine(c, line)
    \/ \E threw \in BOOLEAN : health(threw)
    \/ Tick

SpecInject == InitInject /\ [][NextInject]_vars

\* The evaluations of health alone: as SpecHealth, but the host never calls
\* stop and the logger of health does not throw.
NextEval ==
    \/ StartBeginHealth
    \/ StartInitialHealth
    \/ \E c \in ChildIds : ChildExit(c)
    \/ \E t \in ChildIds : TimerFireHealth(t)
    \/ \E c \in ChildIds, line \in StdoutLines : StdoutLine(c, line)
    \/ \E c \in ChildIds, invalidSecret \in BOOLEAN : StderrLine(c, invalidSecret)
    \/ health(FALSE)
    \/ Tick

SpecEval == InitHealth /\ [][NextEval]_vars

\* A well-behaved child: the host starts the service once (directly
\* spawned child); the child stays alive, writes 'uptime: 0 seconds' and
\* then strictly larger uptimes on stdout, at least one per unit of time that
\* passes, and nothing on stderr; the host polls health and never calls stop.
ScenarioUptimes == 0..(MaxUptime + 2)

\* the uptime of the line the child wrote last
NewestUptime ==
    LET all == BufGetAll(logs) IN all[Len(all)].up

StartOnce == nspawned = 0 /\ StartBegin

ChildWrites(u) ==
    /\ process # NoChild
    /\ IF logs.size = 0 THEN u = 0 ELSE u > NewestUptime
    /\ StdoutLine(process, [up |-> u, err |-> FALSE])

\* time moves on once the child has reported the time that has passed
TickReported ==
    /\ process # NoChild
    /\ logs.size > 0
    /\ NewestUptime >= sinceStart
    /\ Tick

NextScenarioA ==
    \/ StartOnce
    \/ StartInitialHealth
    \/ \E u \in ScenarioUptimes : ChildWrites(u)
    \/ health(FALSE)
    \/ TickReported

SpecScenarioA == InitHealth /\ [][NextScenarioA]_vars

\* The pure parts (CircularBuffer, extractUptimeFromLogs, calculateBackoff)
\* called on every input within the bounds: a buffer of any capacity up to
\* MaxCap receives up to MaxPushes lines between two calls of clear; ev
\* keeps the lines pushed since the buffer was new or cleared, the
\* arguments of the last call and what it returned.  The buffer is read
\* after each change of its content, and calculateBackoff, which reads no
\* state, is called once.  No child is spawned.
PureLines == StdoutLines \cup { [up |-> 0, err |-> FALSE], StderrStored }

BaseDelays == { RESTART_DELAY, 3, 150, MaxBackoffDelay + 100 }

InitPure ==
    /\ autoKeyInjection = FALSE
    /\ process = NoChild
    /\ sinceStart = SinceStartCap
    /\ lastUptime = 0
    /\ isHealthy = FALSE
    /\ restartCount = 0
    /\ \E capacity \in 1..MaxCap : logs = BufNew(capacity)
    /\ healthCache = NoCache
    /\ totalHealthChecks = 0
    /\ children = [c \in ChildIds |-> Unborn]
    /\ nspawned = 0
    /\ timers = [c \in ChildIds |-> NoTimer]
    /\ startCall = IdleCall
    /\ stopCall = IdleCall
    /\ wrapperPath = "unset"
    /\ wrapperFile = FALSE
    /\ ev = [op |-> "new", pushed |-> << >>]

BufferOps == { "new", "push", "clear" }

rest == << totalHealthChecks, autoKeyInjection, process, children, nspawned, sinceStart, lastUptime,
           isHealthy, restartCount, healthCache, timers, startCall, stopCall,
           wrapperPath, wrapperFile >>

push(item) ==
    /\ Len(ev.pushed) < MaxPushes
    /\ logs' = BufPush(logs, item)
    /\ ev' = [op |-> "push", pushed |-> Append(ev.pushed, item)]
    /\ UNCHANGED rest

clear ==
    /\ logs' = BufClear(logs)
    /\ ev' = [op |-> "clear", pushed |-> << >>]
    /\ UNCHANGED rest

getRecent(n) ==
    /\ ev.op \in BufferOps
    /\ ev' = [op |-> "getRecent", pushed |-> ev.pushed, n |-> n,
              ret |-> BufGetRecent(logs, n),
              indexed |-> BufGetRecentIndexed(logs, n)]
    /\ UNCHANGED << logs, rest >>

extractUptime ==
    /\ ev.op \in BufferOps
    /\ ev' = [op |-> "extract", pushed |-> ev.pushed,
              ret |-> extractUptimeFromLogs(logs)]
    /\ UNCHANGED << logs, rest >>

backoff(attempt, baseDelay) ==
    /\ ev.op = "new"
    /\ \E d \in calculateBackoff(attempt, baseDelay) :
         ev' = [op |-> "backoff", pushed |-> ev.pushed, attempt |-> attempt,
                baseDelay |-> baseDelay, ret |-> d]
    /\ UNCHANGED << logs, rest >>

NextPure ==
    \/ \E item \in PureLines : push(item)
    \/ clear
    \/ \E n \in 0..MaxCap : getRecent(n)
    \/ extractUptime
    \/ \E attempt \in 0..MaxAttempt, baseDelay \in BaseDelays : backoff(attempt, baseDelay)

SpecPure == InitPure /\ [][NextPure]_vars

\* =============================================================== claims

\* C1: at most one supervised child process is alive, whatever the sequence
\* of start, stop, exit, restart-timer and health events.
C1_AtMostOneLiveChild == Cardinality(Alive) <= 1

\* C2: once stop has completed the handle stays null and no child is spawned
\* until the host calls start again: from a null handle with no start in
\* progress, only a step of start makes the handle non-null.
C2_NoRespawnAfterStop ==
    [][(process = NoChild /\ startCall.pc = "idle")
         => (process' = NoChild \/ ev'.op \in {"start.spawn", "start"})]_vars

\* C3: after MAX_RESTART_ATTEMPTS consecutive exits following one start (the
\* child of start, then each respawned child in turn) restartCount equals
\* MAX_RESTART_ATTEMPTS.
C3_CeilingReached ==
    LET started == { c \in ChildIds : children[c].by = "start" }
        exited  == { c \in ChildIds : children[c].st = "exited" }
    IN  ( /\ Cardinality(started) = 1
          /\ startCall.pc = "idle" /\ stopCall.pc = "idle" /\ process # NoChild
          /\ nspawned = MAX_RESTART_ATTEMPTS
          /\ Cardinality(exited) = MAX_RESTART_ATTEMPTS
          /\ restartCount > 0 )
        => restartCount = MAX_RESTART_ATTEMPTS

\* C4: every exit of the current child, spawned by start or by a restart,
\* with restartCount below the maximum and no stop running, increments the
\* counter and schedules one respawn.
C4_EveryExitRestarts ==
    [][(ev'.op = "exit" /\ ev'.val = process /\ stopCall.pc = "idle"
          /\ restartCount < MAX_RESTART_ATTEMPTS)
         => (restartCount' = restartCount + 1 /\ timers'[process].phase = "wait")]_vars

\* C5: whenever the handle refers to a spawned child, an exit handler is
\* registered on that child.
C5_HandleHasExitObserver ==
    (process # NoChild /\ HasPid(process)) => children[process].obs # "none"

\* C6: restartCount stays within 0..MAX_RESTART_ATTEMPTS; it changes only to
\* zero in a step of start, or by +1 in a step of the exit handler that
\* schedules a restart, and each such step adds exactly one.
C6_RestartCountDiscipline ==
    [][ /\ restartCount' \in 0..MAX_RESTART_ATTEMPTS
        /\ (restartCount' # restartCount) =>
             \/ ev'.op \in {"start.begin", "start.spawn", "start"} /\ restartCount' = 0
             \/ ev'.op = "exit" /\ ev'.handler = "restart"
        /\ (ev'.op = "exit" /\ ev'.handler = "restart") =>
             /\ restartCount' = restartCount + 1
             /\ timers'[ev'.val].phase = "wait" ]_vars

\* an exit at the ceiling: the handler gives up and the counter stays
C6_Witness ==
    /\ ev.op = "exit" /\ ev.handler = "giveup"
    /\ restartCount = MAX_RESTART_ATTEMPTS

\* C7 as stated: a non-null handle refers to a child that has not exited.
C7_HandleNullAfterExit ==
    process # NoChild => children[process].st = "alive"

\* C7 as amended: the handle changes only to the child just spawned (by start
\* or by a restart timer) or to null at the end of stop; the exit of a child
\* leaves the handle as it is.
C7_HandleChangesOnlyBySpawnOrStop ==
    [][ /\ (process' # process) =>
             \/ process' = NoChild /\ ev'.op = "stop"
             \/ /\ process' = nspawned' /\ nspawned' = nspawned + 1
                /\ ev'.op \in {"start.spawn", "start", "restart.spawn"}
        /\ (ev'.op = "exit") => process' = process ]_vars

\* the current child has just exited and the handle still refers to it
C7_Witness ==
    /\ ev.op = "exit" /\ ev.val = process
    /\ children[process].st = "exited"

\* C8: what health returns is isRunning AND NOT hasErrors AND
\* (uptimeIncreasing OR uptime > 0) of the metrics the evaluator returned to
\* this call, and isHealthy holds the same value.
C8_HealthVerdict ==
    (ev.op = "health" /\ ~ev.threw) =>
        /\ ev.ret.val = ( /\ ev.metrics.isRunning
                          /\ ~ev.metrics.hasErrors
                          /\ (ev.metrics.uptimeIncreasing \/ ev.metrics.uptime > 0) )
        /\ isHealthy = ev.ret.val

\* a running child with an uptime and a recent error line: the error decides
C8_Witness ==
    /\ ev.op = "health" /\ ~ev.threw
    /\ ev.metrics.isRunning /\ ev.metrics.uptime > 0 /\ ev.metrics.hasErrors
    /\ ev.ret.val = FALSE

\* C9: health never raises: it returns a boolean in every state, and false
\* when the evaluation failed.
C9_HealthNeverRaises ==
    (ev.op = "health") =>
        /\ ~ev.ret.raised
        /\ ev.ret.val \in BOOLEAN
        /\ ev.threw => ev.ret.val = FALSE

\* a failure while stop is polling a running child whose verdict was true
C9_Witness ==
    /\ ev.op = "health" /\ ev.threw
    /\ stopCall.pc = "poll" /\ isHealthy
    /\ ev.ret.val = FALSE

\* C10: a full evaluation after the grace period that finds the child running
\* with the uptime of the evaluation before it makes health return false.
C10_StuckUptimeFails ==
    ( /\ ev.op = "health" /\ ~ev.threw /\ ev.path = "full"
      /\ sinceStart > STARTUP_GRACE_PERIOD
      /\ ~ev.metrics.uptimeIncreasing /\ ev.metrics.uptime = lastUptime )
    => ev.ret.val = FALSE

\* C11: once the current child has exited and until another child is
\* installed, every call of health returns false, also within the TTL of an
\* evaluation taken while the child was running.
C11_ExitedChildUnhealthy ==
    ( /\ ev.op = "health"
      /\ process # NoChild /\ children[process].st = "exited" )
    => ev.ret.val = FALSE

\* C12: within the startup grace period a full evaluation that finds the
\* child running and no recent error line makes health return true, also
\* when no uptime line has been seen.
C12_GraceToleratesNoUptime ==
    ( /\ ev.op = "health" /\ ~ev.threw /\ ev.path = "full"
      /\ sinceStart <= STARTUP_GRACE_PERIOD
      /\ ~ev.metrics.hasErrors )
    => ev.ret.val = TRUE

C14_CacheServedOnlyWhenFresh ==
    [][ev'.op = "health" =>
          /\ (ev'.path = "cache") <=>
                (healthCache # NoCache /\ healthCache.age < HEALTH_CACHE_TTL)
          /\ ( /\ healthCache # NoCache /\ healthCache.age >= HEALTH_CACHE_TTL
               /\ process # NoChild
               /\ children[process].st = "alive" )
              => (ev'.path = "full" /\ healthCache'.age = 0) ]_vars

\* a call that found a snapshot as old as the TTL and evaluated anew
C14_Witness ==
    /\ ev.op = "health" /\ ev.path = "full"
    /\ ev.age = HEALTH_CACHE_TTL
    /\ healthCache # NoCache /\ healthCache.age = 0

\* C15: every step that installs a child as the current child (in start or
\* in a restart) leaves the health cache empty, so that no snapshot taken
\* for an earlier child is served for a later one.
C15_RespawnLeavesCacheEmpty ==
    [][(process' # process /\ process' # NoChild) => healthCache' = NoCache]_vars

\* the last n elements of a sequence that has at least n
LastOf(seq, n) == SubSeq(seq, Len(seq) - n + 1, Len(seq))

\* C16: a buffer of capacity N never stores more than N lines, and
\* getRecent(k) with 0 <= k <= N returns the last min(k, number of pushes)
\* pushed lines in push order.
C16_GetRecentLastK ==
    /\ logs.size <= logs.capacity
    /\ (ev.op = "getRecent" /\ ev.n <= logs.capacity)
         => ev.ret = LastOf(ev.pushed, Min(ev.n, Len(ev.pushed)))

\* the newest line of a sequence that matches an uptime pattern gives the
\* value, 0 when no line matches
NewestMatch(lines) ==
    LET matching == { i \in 1..Len(lines) : lines[i].up # NoMatch }
    IN  IF matching = {} THEN 0
        ELSE lines[CHOOSE i \in matching : \A j \in matching : j <= i].up

\* C17: extractUptimeFromLogs returns the value of the newest matching line
\* among the RecentWindow most recent buffered lines, and 0 when none of
\* them matches, whatever older buffered lines hold.
C17_ExtractNewestOfWindow ==
    (ev.op = "extract") =>
        ev.ret = NewestMatch(LastOf(ev.pushed,
                     Min(Min(RecentWindow, logs.capacity), Len(ev.pushed))))

\* 0 is returned although a buffered line older than the window reports an
\* uptime
C17_Witness ==
    /\ ev.op = "extract" /\ ev.ret = 0
    /\ LET all == BufGetAll(logs)
       IN  \E i \in 1..(Len(all) - RecentWindow) : all[i].up > 0

\* C18: min(baseDelay * 2^k, maxDelay) does not decrease from k to k + 1, and
\* what calculateBackoff(k) returns lies between that value and
\* 1.3 * maxDelay.
C18_BackoffBounds ==
    (ev.op = "backoff") =>
        LET free(k) == Min(ev.baseDelay * Pow2(k), MaxBackoffDelay)
        IN  /\ free(ev.attempt) <= free(ev.attempt + 1)
            /\ free(ev.attempt) <= ev.ret
            /\ 10 * ev.ret <= 13 * MaxBackoffDelay

\* the cap applies and the jitter is added to it
C18_Witness ==
    /\ ev.op = "backoff"
    /\ ev.baseDelay * Pow2(ev.attempt) > MaxBackoffDelay
    /\ ev.ret > MaxBackoffDelay

\* C19: when the child of a start writes an invalid-secret line on stderr,
\* SIGTERM is sent to it in the step that ingests the line, while it is
\* still running and before its exit handler has run; when its exit follows
\* with restartCount at 0, the exit handler runs, restartCount becomes 1 and
\* exactly one restart is scheduled, with a delay calculateBackoff gives for
\* attempt 0.
C19_InvalidSecretThenRestart ==
    [][ /\ (ev'.op = "stderr" /\ ev'.secret /\ children[ev'.val].by = "start")
            => /\ ev'.term = ev'.val
               /\ children'[ev'.val].st = "alive"
               /\ restartCount' = restartCount /\ timers' = timers
        /\ ( /\ ev.op = "stderr" /\ ev.term # NoChild
             /\ ev'.op = "exit" /\ ev'.val = ev.term
             /\ children[ev.term].by = "start" /\ restartCount = 0 )
            => /\ ev'.handler = "restart"
               /\ restartCount' = 1
               /\ timers[ev.term] = NoTimer
               /\ timers'[ev.term].phase = "wait"
               /\ timers'[ev.term].left \in calculateBackoff(0, RESTART_DELAY)
               /\ \A t \in ChildIds \ {ev.term} : timers'[t] = timers[t] ]_vars

\* the child of start has exited right after the SIGTERM of its stderr
\* reader and its restart is scheduled
C19_Witness ==
    /\ ev.op = "exit" /\ ev.signalled = "stderr" /\ ev.handler = "restart"
    /\ children[ev.val].by = "start"
    /\ restartCount = 1
    /\ timers[ev.val].phase = "wait"

\* C20: a stderr line of any supervised child is pushed to the buffer and,
\* in the same step, SIGTERM is sent to the child that wrote it exactly when
\* the line holds both 'invalid' and 'secret'; the step leaves the health
\* state alone; a stdout line is pushed and sends no signal.
C20_SecretLineSignalsItsChild ==
    [][ /\ (ev'.op = "stderr")
            => /\ logs' = BufPush(logs, StderrStored)
               /\ ev'.term = (IF ev'.secret THEN ev'.val ELSE NoChild)
               /\ UNCHANGED << isHealthy, healthCache, lastUptime >>
        /\ (ev'.op = "stdout")
            => /\ ev'.term = NoChild
               /\ \E line \in StdoutLines : logs' = BufPush(logs, line) ]_vars

\* a respawned child is sent SIGTERM for its own line
C20_Witness ==
    /\ ev.op = "stderr" /\ ev.secret /\ ev.term = ev.val
    /\ children[ev.val].by = "restart"
    /\ children[ev.val].st = "alive"

\* a step in which the polling loop of stop has ended: the label tells the
\* child stop was called on, how the loop ended and the child SIGKILL reached
StopLoopEnded == ev.op = "stop.cleanup" \/ (ev.op = "stop" /\ ev.val = "ok")

\* C21: when the child stop was called on has ignored SIGTERM until the
\* shutdown timeout elapsed, stop sends SIGKILL to it (the one forced kill of
\* the call), and stop sends no SIGKILL when a poll observed the child gone
\* before the timeout.
C21_ForcedKillOfIgnoringChild ==
    StopLoopEnded =>
        /\ ev.loop = "gone" => ev.kill = NoChild
        /\ (ev.loop = "timeout" /\ children[ev.target].st = "alive")
             => ev.kill = ev.target

C23_StopLeavesStateEmpty ==
    (ev.op = "stop" /\ ev.val = "ok")
        => /\ process = NoChild
           /\ ~isHealthy
           /\ BufGetAll(logs) = << >>
           /\ logs.size = 0
           /\ healthCache = NoCache

\* stop returns after the forced kill of the child it was called on, whose
\* health had been evaluated since its start
C23_Witness ==
    /\ ev.op = "stop" /\ ev.val = "ok"
    /\ ev.loop = "timeout" /\ ev.kill = ev.target
    /\ process = NoChild /\ logs.size = 0
    /\ totalHealthChecks > 0

\* C24: every call of start, whatever the state it is called in, sets
\* restartCount to 0, lastUptime to 0, the log buffer to empty, the health
\* cache to empty and the metrics counters to their initial values in its
\* first step, which is the step that spawns the child or comes before it.
C24_StartResetsState ==
    [][(startCall.pc = "idle"
          /\ ev'.op \in {"start.begin", "start.spawn", "start"})
        => /\ restartCount' = 0
           /\ lastUptime' = 0
           /\ logs'.size = 0 /\ BufGetAll(logs') = << >>
           /\ healthCache' = NoCache
           /\ totalHealthChecks' = 0]_vars

\* start has just run while a restart of an earlier child is scheduled (the
\* counter was positive when start was called)
C24_Witness ==
    /\ ev.op = "start.spawn" /\ ev.val > 1
    /\ startCall.pc = "grace"
    /\ \E t \in ChildIds : timers[t].phase = "wait"
    /\ restartCount = 0

\* C25: without the wrapper, when the key process of start exits with a
\* code other than 0, start rejects with the credential error
\* (InvalidSecretError); the child is not spawned, so no exit observer is
\* registered, and no restart is scheduled: the handle, the children, the
\* timers and the attempt counter stay as they were.
C25_KeyFailureRejectsStart ==
    [][(startCall.pc = "key" /\ ev'.op \in {"start", "start.spawn"}
          /\ ev'.key # 0)
        => /\ ev'.op = "start" /\ ev'.val = "raised"
           /\ ev'.error = "InvalidSecretError"
           /\ startCall' = IdleCall
           /\ UNCHANGED << process, children, nspawned, timers,
                           restartCount >>]_vars

\* start has rejected on a failed key process and no child was ever spawned
C25_Witness ==
    /\ ev.op = "start" /\ ev.val = "raised" /\ ev.key = 1
    /\ startCall = IdleCall
    /\ process = NoChild /\ nspawned = 0
    /\ \A t \in ChildIds : timers[t] = NoTimer

\* C26: once the spawn has given a child with a pid, start completes
\* successfully whatever the initial health reading is: the step that takes
\* the reading after the grace period ends the call without raising, and an
\* unhealthy reading only leaves isHealthy false.
C26_InitialReadingNeverRaises ==
    [][(startCall.pc = "grace" /\ startCall' = IdleCall)
        => /\ ev'.op = "start" /\ ev'.val = "ok"
           /\ UNCHANGED << process, children, timers, restartCount >>]_vars

\* start has completed although its child had exited before the reading
C26_Witness ==
    /\ ev.op = "start" /\ ev.val = "ok"
    /\ ~isHealthy
    /\ process # NoChild
    /\ children[process].st = "exited" /\ children[process].by = "start"

\* C28: heartbeat is read-only: a call leaves the health cache, lastUptime,
\* restartCount, isHealthy, the log buffer and the metrics counters as they
\* are, and the snapshot it returns reports the restartCount, the pid and
\* the isHealthy of the state it is called in.
C28_HeartbeatReadOnly ==
    [][ev'.op = "heartbeat"
        => /\ UNCHANGED << healthCache, lastUptime, restartCount, isHealthy,
                           logs, totalHealthChecks >>
           /\ ev'.ret.restartCount = restartCount
           /\ ev'.ret.alive = isHealthy
           /\ ev'.ret.pid = IF process # NoChild
                               /\ children[process].st # "nopid"
                            THEN process ELSE NoChild]_vars

\* a heartbeat taken after restarts, of a running child that counts as not
\* healthy, with a health snapshot in the cache
C28_Witness ==
    /\ ev.op = "heartbeat"
    /\ ev.ret.restartCount > 0
    /\ ev.ret.pid # NoChild /\ ev.ret.isRunning
    /\ ~ev.ret.alive
    /\ healthCache # NoCache

\* C29: installSecrets raises when the binary is missing or not executable,
\* in one attempt that leaves the recorded wrapper path as it was; when the
\* binary is executable it returns success, also when the wrapper script
\* cannot be written, and the recorded wrapper path is then the binary's.
C29_InstallSecretsOutcome ==
    [][ev'.op = "installSecrets"
        => IF ev'.access
           THEN /\ ev'.val = "success"
                /\ wrapperPath' = IF ev'.write THEN "wrapper" ELSE "binary"
           ELSE /\ ev'.val = "raised"
                /\ UNCHANGED << wrapperPath, wrapperFile >>]_vars

\* installSecrets has succeeded although the wrapper could not be written
C29_Witness ==
    /\ ev.op = "installSecrets" /\ ev.val = "success"
    /\ ev.access /\ ~ev.write
    /\ wrapperPath = "binary"

C30_WrongKeyExitsAnswered ==
    (ev.op = "exit" /\ ev.signalled = "stderr")
        => /\ ev.handler \in {"restart", "giveup"}
           /\ ev.handler = "giveup" => restartCount >= MAX_RESTART_ATTEMPTS

\* the lines of one stream among a sequence of lines (stderr lines are the
\* ones stored with the 'ERROR: ' prefix)
OfStream(seq, stderr) == SelectSeq(seq, LAMBDA l : l.err = stderr)

\* C31: the handlers of the stdout reader and of the stderr reader each run
\* to completion, so their pushes interleave as whole pushes; under every
\* interleaving the buffer keeps 0 <= head < capacity and
\* size = min(pushes since the last clear, capacity), holds exactly the
\* newest size lines pushed (none lost but by eviction of the oldest), and
\* holds the lines of each stream in the order they were pushed.
C31_PushesAtomic ==
    LET kept == Min(Len(ev.pushed), logs.capacity)
    IN  /\ logs.head >= 0 /\ logs.head < logs.capacity
        /\ logs.size = kept
        /\ BufGetAll(logs) = LastOf(ev.pushed, kept)
        /\ \A stderr \in BOOLEAN :
             LET mine == OfStream(BufGetAll(logs), stderr)
                 all  == OfStream(ev.pushed, stderr)
             IN  mine = LastOf(all, Len(mine))

\* lines of both streams have been pushed in turn past the capacity of the
\* buffer, which holds lines of both
C31_Witness ==
    /\ ev.op = "push"
    /\ Len(ev.pushed) > logs.capacity
    /\ Len(OfStream(BufGetAll(logs), TRUE)) > 0
    /\ Len(OfStream(BufGetAll(logs), FALSE)) > 0
    /\ Len(OfStream(ev.pushed, TRUE)) > Len(OfStream(BufGetAll(logs), TRUE))

\* C32: an evaluation answered from the cache changes nothing: lastUptime,
\* the cached snapshot and its age, and the metrics counters are as before,
\* and the metrics returned are the cached ones (no probe of the child and
\* no scan of the log lines is made for them).
C32_CachedCallChangesNothing ==
    [][(ev'.op = "health" /\ ev'.path = "cache")
        => /\ UNCHANGED << lastUptime, healthCache, totalHealthChecks >>
           /\ healthCache # NoCache
           /\ ev'.metrics = healthCache.metrics]_vars

\* a call served from the cache although the child it was taken of has
\* exited since and a newer line is in the buffer
C32_Witness ==
    /\ ev.op = "health" /\ ev.path = "cache"
    /\ ev.metrics.isRunning
    /\ process # NoChild /\ children[process].st = "exited"
    /\ extractUptimeFromLogs(logs) > lastUptime

\* C33: on every full evaluation of a running child, uptimeIncreasing is
\* true exactly when the uptime extracted from the lines is strictly greater
\* than lastUptime, and lastUptime is overwritten with the extracted uptime
\* in exactly that case and left as it is otherwise.
C33_UptimeIncreasingExact ==
    [][(ev'.op = "health" /\ ev'.path = "full")
        => LET uptime == extractUptimeFromLogs(logs)
           IN  /\ ev'.metrics.uptime = uptime
               /\ ev'.metrics.uptimeIncreasing = (uptime > lastUptime)
               /\ lastUptime' = IF uptime > lastUptime THEN uptime
                                ELSE lastUptime]_vars

\* a full evaluation within the grace period that finds the uptime where it
\* was at the evaluation before: not increasing, lastUptime kept
C33_Witness ==
    /\ ev.op = "health" /\ ev.path = "full"
    /\ sinceStart <= STARTUP_GRACE_PERIOD
    /\ ev.metrics.uptime > 0
    /\ ev.metrics.uptime = lastUptime
    /\ ~ev.metrics.uptimeIncreasing

\* C34: a stderr line is stored with the prefix 'ERROR: ', so whenever a
\* stderr line is among the most recent lines that a full evaluation scans,
\* the evaluation sets hasErrors and the health hook returns false, whatever
\* the line says and whatever the uptime is.
C34_StderrLineMeansUnhealthy ==
    LET recent == BufGetRecent(logs, RecentWindow)
    IN  (/\ ev.op = "health" /\ ev.path = "full"
         /\ \E i \in 1..Len(recent) : recent[i] = StderrStored)
            => /\ ev.metrics.hasErrors
               /\ ev.ret.val = FALSE
               /\ ~isHealthy

\* a stderr line that is no invalid-secret line makes a running child with
\* an increasing uptime unhealthy
C34_Witness ==
    /\ ev.op = "health" /\ ev.path = "full"
    /\ ev.metrics.isRunning /\ ev.metrics.uptimeIncreasing
    /\ ev.metrics.uptime > 0
    /\ ev.metrics.hasErrors
    /\ ev.ret.val = FALSE

C36_WrapperExistsAtSpawn ==
    [][nspawned' # nspawned
        => /\ children'[nspawned'].st # "nopid"
           /\ (autoKeyInjection /\ wrapperPath = "wrapper"
                 /\ ev'.op \in {"start.spawn", "start"}) => wrapperFile]_vars

\* C37: a restart whose respawn fails (the key process of the restart timer
\* exits with a code other than 0) is not retried: the failure is caught in
\* the callback, restartCount keeps the value the exit handler gave it, the
\* handle is left as it is (the exited child, unless a start has replaced it
\* meanwhile), no child is spawned and no timer is scheduled.
C37_FailedRestartNotRetried ==
    [][ev'.op = "restart.failed"
        => /\ UNCHANGED << process, children, nspawned, restartCount,
                           isHealthy, startCall, stopCall >>
           /\ children[ev'.val].st = "exited"
           /\ timers' = [timers EXCEPT ![ev'.val] = NoTimer]]_vars

\* the only restart of the child of start has failed: the handle still
\* refers to the exited child and nothing is scheduled
C37_Witness ==
    /\ ev.op = "restart.failed"
    /\ process = ev.val /\ children[process].st = "exited"
    /\ restartCount = 1
    /\ \A t \in ChildIds : timers[t] = NoTimer
    /\ startCall = IdleCall

\* C38: the two variants of the ring buffer are observationally equivalent:
\* for every capacity, every sequence of push and clear and every n >= 0,
\* getRecent(n) built on getAll().slice(-n) returns the same sequence as
\* getRecent(n) that indexes back from head.
C38_GetRecentVariantsAgree ==
    ev.op = "getRecent" => ev.ret = ev.indexed

====
